---- MODULE Spec2Model ----
(***************************************************************************)
(* A model of installer.py: resolution of the Visual Studio manifest into  *)
(* an installation of the msvc / crt / asan / sdk components.              *)
(*                                                                         *)
(* Text (str) and byte strings (bytes) are tuples of one-character         *)
(* strings; the byte 0x80 stands for every non-ASCII byte.  Indices into   *)
(* text are 0-based as in the source, so s[i] of the source is s[i+1].     *)
(***************************************************************************)
EXTENDS Integers, Sequences, FiniteSets, TLC

\* ------------------------------------------------------------- bounds
\* Number of pieces (a marker or a single byte) a scanned buffer is made of.
MaxPieces == 5

\* Number of lines of a template.
MaxLines == 3

\* Number of words given to --components.
MaxComponents == 2

\* ------------------------------------------------------- str and bytes
\* None, where the other values are strings naming an outcome or an exception
None == "None"

\* None, where the other values are text or lists
Absent == <<"None">>

\* no status yet, and no Content-Length header
Unset == -1

UpperChars == <<"A","B","C","D","E","F","G","H","I","J","K","L","M","N","O","P","Q","R","S","T","U","V","W","X","Y","Z">>

LowerChars == <<"a","b","c","d","e","f","g","h","i","j","k","l","m","n","o","p","q","r","s","t","u","v","w","x","y","z">>

Digits == {"0","1","2","3","4","5","6","7","8","9"}

UpperLetters == {UpperChars[i] : i \in 1..Len(UpperChars)}

LowerOf == [c \in UpperLetters |->
               LowerChars[CHOOSE i \in 1..Len(UpperChars) : UpperChars[i] = c]]

\* str.lower() of one character
LowerChar(c) == IF c \in UpperLetters THEN LowerOf[c] ELSE c

\* str.lower()
Lower(s) == [i \in 1..Len(s) |-> LowerChar(s[i])]

\* str.isnumeric()
IsNumeric(s) == Len(s) > 0 /\ \A i \in 1..Len(s) : s[i] \in Digits

\* whether pat occurs in s at the 0-based offset i
MatchAt(s, pat, i) ==
    /\ i >= 0
    /\ i + Len(pat) <= Len(s)
    /\ \A k \in 1..Len(pat) : s[i + k] = pat[k]

\* str.startswith / str.endswith
StartsWith(s, pat) == MatchAt(s, pat, 0)

EndsWith(s, pat) == MatchAt(s, pat, Len(s) - Len(pat))

\* `pat in s`
Contains(s, pat) == \E i \in 0..Len(s) : MatchAt(s, pat, i)

\* bytes.find(pat, start): the lowest offset >= start of pat in s, or -1
Find(s, pat, start) ==
    LET hits == {i \in start..Len(s) : MatchAt(s, pat, i)}
    IN  IF hits = {} THEN -1 ELSE CHOOSE i \in hits : \A j \in hits : i <= j

\* the bound of a slice, as Python clamps it: negative counts from the end
SliceBound(n, len) ==
    IF n < 0 THEN (IF n + len < 0 THEN 0 ELSE n + len)
    ELSE (IF n > len THEN len ELSE n)

\* s[a:b]
Slice(s, a, b) == SubSeq(s, SliceBound(a, Len(s)) + 1, SliceBound(b, Len(s)))

\* s[a:]
SliceFrom(s, a) == SubSeq(s, SliceBound(a, Len(s)) + 1, Len(s))

\* the k-th smallest element of a set of numbers
Nth(P, k) == CHOOSE p \in P : Cardinality({q \in P : q < p}) = k - 1

\* str.split(sep) for a one-character sep: the text between the separators
Split(s, sep) ==
    LET cuts == {i \in 1..Len(s) : s[i] = sep} \cup {0, Len(s) + 1}
    IN  [k \in 1..(Cardinality(cuts) - 1) |->
            SubSeq(s, Nth(cuts, k) + 1, Nth(cuts, k + 1) - 1)]

RECURSIVE Join(_, _)
\* sep.join(parts)
Join(parts, sep) ==
    IF Len(parts) = 0 THEN <<>>
    ELSE IF Len(parts) = 1 THEN parts[1]
    ELSE parts[1] \o <<sep>> \o Join(Tail(parts), sep)

RECURSIVE Concat(_)
\* the concatenation of a sequence of sequences
Concat(ss) == IF Len(ss) = 0 THEN <<>> ELSE Head(ss) \o Concat(Tail(ss))

\* all tuples over S of length at most n
SeqsUpTo(S, n) == UNION {[1..k -> S] : k \in 0..n}

UpperOf == [c \in {LowerChars[i] : i \in 1..Len(LowerChars)} |->
               UpperChars[CHOOSE i \in 1..Len(LowerChars) : LowerChars[i] = c]]

\* str.upper() of one character
UpperChar(c) == IF c \in DOMAIN UpperOf THEN UpperOf[c] ELSE c

\* str.upper()
Upper(s) == [i \in 1..Len(s) |-> UpperChar(s[i])]

\* ------------------------------------------------------------ hashlib
\* the characters payload bytes are made of, each standing for its position
ByteTable == <<"a","b","c","d","e","f","g","h","i","j","k","l","m","n","o","p","q","r","s","t","u","v","w","x","y","z","A","B","C","D","E","F","G","H","I","J","K","L","M","N","O","P","Q","R","S","T","U","V","W","X","Y","Z","0","1","2","3","4","5","6","7","8","9",".","/","\\"," ","-","_",":","\n","[","]">>

ByteCode == [b \in {ByteTable[i] : i \in 1..Len(ByteTable)} |->
                CHOOSE i \in 1..Len(ByteTable) : ByteTable[i] = b]

ByteValue(b) == IF b \in DOMAIN ByteCode THEN ByteCode[b] ELSE 0

HexDigits == <<"0","1","2","3","4","5","6","7","8","9","a","b","c","d","e","f">>

RECURSIVE Pow31(_)
\* 31^k modulo 2^15
Pow31(k) ==
    IF k = 0 THEN 1
    ELSE IF k % 2 = 0 THEN LET h == Pow31(k \div 2) IN (h * h) % 32768
    ELSE (31 * Pow31(k - 1)) % 32768

RECURSIVE DigestOf(_, _, _)
\* the digest of the bytes lo..hi of data: each byte weighs in by its position
DigestOf(data, lo, hi) ==
    IF lo > hi THEN 0
    ELSE IF lo = hi THEN ByteValue(data[lo])
    ELSE LET mid == (lo + hi) \div 2
         IN  (DigestOf(data, lo, mid) * Pow31(hi - mid) + DigestOf(data, mid + 1, hi)) % 32768

\* hashlib.sha256(data).hexdigest(): a lower-case hexadecimal digest that
\* depends on every byte of data in order (15 bits wide here, not 256)
sha256_hexdigest(data) ==
    LET h == (7 * Pow31(Len(data)) + DigestOf(data, 1, Len(data))) % 32768
    IN  <<HexDigits[(h \div 4096) + 1], HexDigits[((h \div 256) % 16) + 1],
          HexDigits[((h \div 16) % 16) + 1], HexDigits[(h % 16) + 1]>>

\* ------------------------------------------------------- get_msi_cabs
CabMarker == <<".","c","a","b">>

\* the width of the name field that precedes a marker
CabNameWidth == 32

NonAscii == "0x80"

\* bytes.decode("ascii") raises UnicodeDecodeError on a byte >= 0x80
Decodable(bs) == \A i \in 1..Len(bs) : bs[i] # NonAscii

RECURSIVE get_msi_cabs_from(_, _)
\* the loop of get_msi_cabs from the position index: the names yielded, and
\* whether the generator ended by raising
get_msi_cabs_from(msi, index) ==
    LET next == Find(msi, CabMarker, index + 4)
    IN  IF next < 0 THEN [names |-> <<>>, raised |-> FALSE]
        ELSE LET field == Slice(msi, next - CabNameWidth, next + 4)
             IN  IF ~Decodable(field) THEN [names |-> <<>>, raised |-> TRUE]
                 ELSE LET rest == get_msi_cabs_from(msi, next)
                      IN  [names |-> <<field>> \o rest.names, raised |-> rest.raised]

\* the same with the scan started at the end of the buffer
get_msi_cabs_from_end(msi) == get_msi_cabs_from(msi, Len(msi))

\* list(get_msi_cabs(msi))
get_msi_cabs(msi) == get_msi_cabs_from(msi, 0)


\* ------------------------------------------------- AtTemplate and subs
\* AtTemplate.delimiter
Delimiter == "@"

Letters == {UpperChars[i] : i \in 1..Len(UpperChars)} \cup {LowerChars[i] : i \in 1..Len(LowerChars)}

\* the first character of an identifier of string.Template: [_a-z], case ignored
IdStart(c) == c = "_" \/ c \in Letters

\* a later character of an identifier: [_a-z0-9], case ignored
IdChar(c) == IdStart(c) \/ c \in Digits

\* the 1-based position after the longest run of identifier characters from i
IdEnd(line, i) ==
    CHOOSE e \in i..(Len(line) + 1) :
        /\ \A k \in i..(e - 1) : IdChar(line[k])
        /\ e = Len(line) + 1 \/ ~IdChar(line[e])

\* the 1-based position of the first delimiter at or after i, or past the end
NextDelimiter(line, i) ==
    CHOOSE e \in i..(Len(line) + 1) :
        /\ \A k \in i..(e - 1) : line[k] # Delimiter
        /\ e = Len(line) + 1 \/ line[e] = Delimiter

RECURSIVE SubsFrom(_, _, _)
\* Template.substitute from the 1-based position i: the text produced, or the
\* exception raised (KeyError for a name the mapping lacks, ValueError for a
\* delimiter followed by no placeholder)
SubsFrom(line, substitutes, i) ==
    IF i > Len(line) THEN [error |-> None, text |-> <<>>]
    ELSE IF line[i] # Delimiter THEN
        LET e == NextDelimiter(line, i)
            rest == SubsFrom(line, substitutes, e)
        IN  [error |-> rest.error, text |-> SubSeq(line, i, e - 1) \o rest.text]
    ELSE IF i + 1 <= Len(line) /\ line[i + 1] = Delimiter THEN
        \* escaped: @@
        LET rest == SubsFrom(line, substitutes, i + 2)
        IN  [error |-> rest.error, text |-> <<Delimiter>> \o rest.text]
    ELSE IF i + 1 <= Len(line) /\ IdStart(line[i + 1]) THEN
        \* named: @identifier
        LET e == IdEnd(line, i + 1)
            name == SubSeq(line, i + 1, e - 1)
        IN  IF name \notin DOMAIN substitutes THEN [error |-> "KeyError", text |-> <<>>]
            ELSE LET rest == SubsFrom(line, substitutes, e)
                 IN  [error |-> rest.error, text |-> substitutes[name] \o rest.text]
    ELSE IF /\ i + 2 <= Len(line)
            /\ line[i + 1] = "{"
            /\ IdStart(line[i + 2])
            /\ IdEnd(line, i + 2) <= Len(line)
            /\ line[IdEnd(line, i + 2)] = "}" THEN
        \* braced: @{identifier}
        LET e == IdEnd(line, i + 2)
            name == SubSeq(line, i + 2, e - 1)
        IN  IF name \notin DOMAIN substitutes THEN [error |-> "KeyError", text |-> <<>>]
            ELSE LET rest == SubsFrom(line, substitutes, e + 1)
                 IN  [error |-> rest.error, text |-> substitutes[name] \o rest.text]
    ELSE [error |-> "ValueError", text |-> <<>>]

\* subs(line, substitutes)
subs(line, substitutes) == SubsFrom(line, substitutes, 1)

RECURSIVE WriteLines(_, _)
\* the loop of copy_and_rename over the lines of the source: the lines written
\* to the target before the loop ended, and the exception that ended it
WriteLines(lines, substitutes) ==
    IF Len(lines) = 0 THEN [error |-> None, written |-> <<>>]
    ELSE LET s == subs(Head(lines), substitutes)
         IN  IF s.error # None THEN [error |-> s.error, written |-> <<>>]
             ELSE LET rest == WriteLines(Tail(lines), substitutes)
                  IN  [error |-> rest.error, written |-> <<s.text>> \o rest.written]

\* copy_and_rename(source, target, substitutes) on the files `files` (a
\* function from the paths that exist to their lines): open(target, "w")
\* creates or truncates the target before the first line is read, and the
\* with blocks close both files when subs raises
copy_and_rename(files, source, target, substitutes) ==
    IF source \notin DOMAIN files
    THEN [error |-> "FileNotFoundError", files |-> files]
    ELSE LET r == WriteLines(files[source], substitutes)
         IN  [error |-> r.error,
              files |-> [p \in DOMAIN files \cup {target} |->
                            IF p = target THEN r.written ELSE files[p]]]

\* ------------------------------------------------- the vendor's servers
\* The channel manifest, the product manifest and the payloads are what the
\* vendor serves: text below is the vendor's, with the vendor's letter case.

\* the directory the vendor's archives unpack the 14.38.33130 toolchain into
VcRoot == <<"C","o","n","t","e","n","t","s","/","V","C","/","T","o","o","l","s","/","M","S","V","C","/","1","4",".","3","8",".","3","3","1","3","0","/">>

CabA == <<"1","5","b","c","5","3","1","6","e","3","7","3","9","6","0","d","8","2","a","b","c","2","5","3","b","c","e","a","a","2","5","d",".","c","a","b">>

CabB == <<"2","6","3","0","b","a","e","9","6","8","1","d","b","6","a","9","f","6","7","2","2","3","6","6","f","4","7","d","0","5","5","c",".","c","a","b">>

\* a zip archive is the list of its member names, one per line
ZipOf(names) == Join(names, "\n")

\* the urls of the payloads of this model
Urls == {"vc/tools", "vc/tools.res.fr", "vc/tools.res", "vc/crt.headers", "vc/crt.desktop",
         "vc/crt.store", "vc/crt.source", "vc/asan.headers", "vc/asan", "sdk/tools.msi",
         "sdk/store.headers.msi", "sdk/desktop.headers.msi", "sdk/store.libs.msi",
         "sdk/desktop.libs.msi", "sdk/ucrt.msi", "sdk/a.cab", "sdk/b.cab"}

\* the body the vendor publishes at a url
Genuine(url) ==
    CASE url = "vc/tools" -> ZipOf(<<VcRoot \o <<"b","i","n","/","H","o","s","t","x","6","4","/","x","6","4","/","c","l",".","e","x","e">>, <<"e","x","t","e","n","s","i","o","n",".","v","s","i","x","m","a","n","i","f","e","s","t">>>>)
      [] url = "vc/tools.res.fr" -> ZipOf(<<VcRoot \o <<"b","i","n","/","H","o","s","t","x","6","4","/","x","6","4","/","1","0","3","6","/","c","l","u","i",".","d","l","l">>>>)
      [] url = "vc/tools.res" -> ZipOf(<<VcRoot \o <<"b","i","n","/","H","o","s","t","x","6","4","/","x","6","4","/","1","0","3","3","/","c","l","u","i",".","d","l","l">>>>)
      [] url = "vc/crt.headers" -> ZipOf(<<VcRoot \o <<"i","n","c","l","u","d","e","/","s","t","d","i","o",".","h">>>>)
      [] url = "vc/crt.desktop" -> ZipOf(<<VcRoot \o <<"l","i","b","/","x","6","4","/","l","i","b","c","m","t",".","l","i","b">>>>)
      [] url = "vc/crt.store" -> ZipOf(<<VcRoot \o <<"l","i","b","/","x","6","4","/","s","t","o","r","e","/","l","i","b","c","m","t",".","l","i","b">>>>)
      [] url = "vc/crt.source" -> ZipOf(<<VcRoot \o <<"c","r","t","/","s","r","c","/","a",".","c">>>>)
      [] url = "vc/asan.headers" -> ZipOf(<<VcRoot \o <<"i","n","c","l","u","d","e","/","a","s","a","n",".","h">>>>)
      [] url = "vc/asan" -> ZipOf(<<VcRoot \o <<"b","i","n","/","H","o","s","t","x","6","4","/","x","6","4","/","a","s","a","n",".","d","l","l">>>>)
      [] url = "sdk/tools.msi" -> <<"m","s","i",":","t","o","o","l","s",":">> \o CabA
      [] url = "sdk/store.headers.msi" -> <<"m","s","i",":","s","h">>
      [] url = "sdk/desktop.headers.msi" -> <<"m","s","i",":","d","h",":">> \o CabB
      [] url = "sdk/store.libs.msi" -> <<"m","s","i",":","s","l">>
      [] url = "sdk/desktop.libs.msi" -> <<"m","s","i",":","d","l">>
      [] url = "sdk/ucrt.msi" -> <<"m","s","i",":","u","c","r","t",":">> \o CabB
      [] url = "sdk/a.cab" -> <<"M","S","C","F",":","a">>
      [] url = "sdk/b.cab" -> <<"M","S","C","F",":","b">>

\* a body that differs from the published one: for an archive, one more member
Tampered(url) ==
    IF StartsWith(Genuine(url), <<"C","o","n","t","e","n","t","s","/">>)
    THEN Genuine(url) \o <<"\n","C","o","n","t","e","n","t","s","/","V","C","/","T","o","o","l","s","/","M","S","V","C","/","0",".","0",".","0","/","e","v","i","l">>
    ELSE Genuine(url) \o <<"e","v","i","l">>

\* a payload descriptor of the product manifest; some hashes are published in
\* upper case
Payload(url, fileName, upper) ==
    [url |-> url,
     sha256 |-> IF upper THEN Upper(sha256_hexdigest(Genuine(url)))
                ELSE sha256_hexdigest(Genuine(url)),
     fileName |-> fileName]

Package(id, language, payloads, dependencies) ==
    [id |-> id, language |-> language, payloads |-> payloads, dependencies |-> dependencies]

VcComponentId == <<"M","i","c","r","o","s","o","f","t",".","V","i","s","u","a","l","S","t","u","d","i","o",".","C","o","m","p","o","n","e","n","t",".","V","C",".","1","4",".","3","8",".","3","3","1","3","0",".","x","8","6",".","x","6","4">>

Win11SdkId == <<"M","i","c","r","o","s","o","f","t",".","V","i","s","u","a","l","S","t","u","d","i","o",".","C","o","m","p","o","n","e","n","t",".","W","i","n","d","o","w","s","1","1","S","D","K",".","2","2","6","2","1">>

SdkPayloads ==
    <<Payload("sdk/a.cab", <<"I","n","s","t","a","l","l","e","r","s","\\">> \o CabA, FALSE),
      Payload("sdk/tools.msi", <<"I","n","s","t","a","l","l","e","r","s","\\","W","i","n","d","o","w","s"," ","S","D","K"," ","f","o","r"," ","W","i","n","d","o","w","s"," ","S","t","o","r","e"," ","A","p","p","s"," ","T","o","o","l","s","-","x","8","6","_","e","n","-","u","s",".","m","s","i">>, FALSE),
      Payload("sdk/store.headers.msi", <<"I","n","s","t","a","l","l","e","r","s","\\","W","i","n","d","o","w","s"," ","S","D","K"," ","f","o","r"," ","W","i","n","d","o","w","s"," ","S","t","o","r","e"," ","A","p","p","s"," ","H","e","a","d","e","r","s","-","x","8","6","_","e","n","-","u","s",".","m","s","i">>, TRUE),
      Payload("sdk/desktop.headers.msi", <<"I","n","s","t","a","l","l","e","r","s","\\","W","i","n","d","o","w","s"," ","S","D","K"," ","D","e","s","k","t","o","p"," ","H","e","a","d","e","r","s"," ","x","8","6","-","x","8","6","_","e","n","-","u","s",".","m","s","i">>, FALSE),
      Payload("sdk/store.libs.msi", <<"I","n","s","t","a","l","l","e","r","s","\\","W","i","n","d","o","w","s"," ","S","D","K"," ","f","o","r"," ","W","i","n","d","o","w","s"," ","S","t","o","r","e"," ","A","p","p","s"," ","L","i","b","s","-","x","8","6","_","e","n","-","u","s",".","m","s","i">>, FALSE),
      Payload("sdk/desktop.libs.msi", <<"I","n","s","t","a","l","l","e","r","s","\\","W","i","n","d","o","w","s"," ","S","D","K"," ","D","e","s","k","t","o","p"," ","L","i","b","s"," ","x","6","4","-","x","8","6","_","e","n","-","u","s",".","m","s","i">>, FALSE),
      Payload("sdk/ucrt.msi", <<"I","n","s","t","a","l","l","e","r","s","\\","U","n","i","v","e","r","s","a","l"," ","C","R","T"," ","H","e","a","d","e","r","s"," ","L","i","b","r","a","r","i","e","s"," ","a","n","d"," ","S","o","u","r","c","e","s","-","x","8","6","_","e","n","-","u","s",".","m","s","i">>, FALSE),
      Payload("sdk/b.cab", <<"I","n","s","t","a","l","l","e","r","s","\\">> \o CabB, TRUE)>>

\* vs_manifest["packages"] of a release whose only toolchain is 14.38.33130
ManifestA ==
    <<Package(VcComponentId, Absent, <<>>, <<>>),
      Package(<<"M","i","c","r","o","s","o","f","t",".","V","C",".","1","4",".","3","8",".","3","3","1","3","0",".","T","o","o","l","s",".","H","o","s","t","X","6","4",".","T","a","r","g","e","t","X","6","4",".","b","a","s","e">>, Absent,
              <<Payload("vc/tools", Absent, FALSE)>>, <<>>),
      Package(<<"M","i","c","r","o","s","o","f","t",".","V","C",".","1","4",".","3","8",".","3","3","1","3","0",".","T","o","o","l","s",".","H","o","s","t","X","6","4",".","T","a","r","g","e","t","X","6","4",".","R","e","s",".","b","a","s","e">>, <<"f","r","-","F","R">>,
              <<Payload("vc/tools.res.fr", Absent, FALSE)>>, <<>>),
      Package(<<"M","i","c","r","o","s","o","f","t",".","V","C",".","1","4",".","3","8",".","3","3","1","3","0",".","T","o","o","l","s",".","H","o","s","t","X","6","4",".","T","a","r","g","e","t","X","6","4",".","R","e","s",".","b","a","s","e">>, <<"e","n","-","U","S">>,
              <<Payload("vc/tools.res", Absent, TRUE)>>, <<>>),
      Package(<<"M","i","c","r","o","s","o","f","t",".","V","C",".","1","4",".","3","8",".","3","3","1","3","0",".","C","R","T",".","H","e","a","d","e","r","s",".","b","a","s","e">>, Absent,
              <<Payload("vc/crt.headers", Absent, FALSE)>>, <<>>),
      Package(<<"M","i","c","r","o","s","o","f","t",".","V","C",".","1","4",".","3","8",".","3","3","1","3","0",".","C","R","T",".","x","6","4",".","D","e","s","k","t","o","p",".","b","a","s","e">>, Absent,
              <<Payload("vc/crt.desktop", Absent, TRUE)>>, <<>>),
      Package(<<"M","i","c","r","o","s","o","f","t",".","V","C",".","1","4",".","3","8",".","3","3","1","3","0",".","C","R","T",".","x","6","4",".","S","t","o","r","e",".","b","a","s","e">>, Absent,
              <<Payload("vc/crt.store", Absent, FALSE)>>, <<>>),
      Package(<<"M","i","c","r","o","s","o","f","t",".","V","C",".","1","4",".","3","8",".","3","3","1","3","0",".","C","R","T",".","S","o","u","r","c","e",".","b","a","s","e">>, Absent,
              <<Payload("vc/crt.source", Absent, FALSE)>>, <<>>),
      Package(<<"M","i","c","r","o","s","o","f","t",".","V","C",".","1","4",".","3","8",".","3","3","1","3","0",".","A","S","A","N",".","H","e","a","d","e","r","s",".","b","a","s","e">>, Absent,
              <<Payload("vc/asan.headers", Absent, FALSE)>>, <<>>),
      Package(<<"M","i","c","r","o","s","o","f","t",".","V","C",".","1","4",".","3","8",".","3","3","1","3","0",".","A","S","A","N",".","X","6","4",".","b","a","s","e">>, Absent,
              <<Payload("vc/asan", Absent, TRUE)>>, <<>>),
      Package(Win11SdkId, Absent, <<>>, <<<<"W","i","n","1","1","S","D","K","_","1","0",".","0",".","2","2","6","2","1">>>>),
      Package(<<"W","i","n","1","1","S","D","K","_","1","0",".","0",".","2","2","6","2","1">>, Absent, SdkPayloads, <<>>)>>

\* the payloads of an SDK package that lacks the one published at url
SdkPayloadsWithout(url) == SelectSeq(SdkPayloads, LAMBDA p : p.url # url)

\* the same release with more component identifiers: an older toolchain,
\* identifiers of both families that carry no version, and two older SDKs
\* whose packages lack a payload (a cabinet for one, an installer database
\* for the other)
ManifestB ==
    <<Package(<<"M","i","c","r","o","s","o","f","t",".","V","i","s","u","a","l","S","t","u","d","i","o",".","C","o","m","p","o","n","e","n","t",".","V","C",".","1","4",".","2","9",".","1","6",".","1","1",".","x","8","6",".","x","6","4">>, Absent, <<>>, <<>>),
      Package(<<"M","i","c","r","o","s","o","f","t",".","V","i","s","u","a","l","S","t","u","d","i","o",".","C","o","m","p","o","n","e","n","t",".","V","C",".","T","o","o","l","s",".","x","8","6",".","x","6","4">>, Absent, <<>>, <<>>),
      Package(<<"M","i","c","r","o","s","o","f","t",".","V","i","s","u","a","l","S","t","u","d","i","o",".","C","o","m","p","o","n","e","n","t",".","W","i","n","d","o","w","s","1","0","S","D","K",".","I","p","O","v","e","r","U","s","b">>, Absent, <<>>, <<>>)>>
    \o ManifestA
    \o <<Package(<<"M","i","c","r","o","s","o","f","t",".","V","i","s","u","a","l","S","t","u","d","i","o",".","C","o","m","p","o","n","e","n","t",".","W","i","n","d","o","w","s","1","0","S","D","K",".","1","9","0","4","1">>, Absent, <<>>,
                  <<<<"W","i","n","1","0","S","D","K","_","1","0",".","0",".","1","9","0","4","1">>>>),
          Package(<<"W","i","n","1","0","S","D","K","_","1","0",".","0",".","1","9","0","4","1">>, Absent, SdkPayloadsWithout("sdk/b.cab"), <<>>),
          Package(<<"M","i","c","r","o","s","o","f","t",".","V","i","s","u","a","l","S","t","u","d","i","o",".","C","o","m","p","o","n","e","n","t",".","W","i","n","d","o","w","s","1","0","S","D","K",".","1","8","3","6","2">>, Absent, <<>>,
                  <<<<"W","i","n","1","0","S","D","K","_","1","0",".","0",".","1","8","3","6","2">>>>),
          Package(<<"W","i","n","1","0","S","D","K","_","1","0",".","0",".","1","8","3","6","2">>, Absent, SdkPayloadsWithout("sdk/desktop.headers.msi"), <<>>)>>

Manifests == {ManifestA, ManifestB}

\* what msiexec /a writes under TARGETDIR for an installer database
Unpacked(m) ==
    CASE m = <<"W","i","n","d","o","w","s"," ","S","D","K"," ","f","o","r"," ","W","i","n","d","o","w","s"," ","S","t","o","r","e"," ","A","p","p","s"," ","T","o","o","l","s","-","x","8","6","_","e","n","-","u","s",".","m","s","i">> ->
            {<<"W","i","n","d","o","w","s"," ","K","i","t","s","/","1","0","/","b","i","n","/","1","0",".","0",".","2","2","6","2","1",".","0","/","x","6","4","/","r","c",".","e","x","e">>,
             <<"W","i","n","d","o","w","s"," ","K","i","t","s","/","1","0","/","b","i","n","/","1","0",".","0",".","2","2","6","2","1",".","0","/","x","8","6","/","r","c",".","e","x","e">>, m}
      [] m = <<"W","i","n","d","o","w","s"," ","S","D","K"," ","f","o","r"," ","W","i","n","d","o","w","s"," ","S","t","o","r","e"," ","A","p","p","s"," ","H","e","a","d","e","r","s","-","x","8","6","_","e","n","-","u","s",".","m","s","i">> ->
            {<<"W","i","n","d","o","w","s"," ","K","i","t","s","/","1","0","/","I","n","c","l","u","d","e","/","1","0",".","0",".","2","2","6","2","1",".","0","/","u","m","/","a",".","h">>}
      [] m = <<"W","i","n","d","o","w","s"," ","S","D","K"," ","D","e","s","k","t","o","p"," ","H","e","a","d","e","r","s"," ","x","8","6","-","x","8","6","_","e","n","-","u","s",".","m","s","i">> ->
            {<<"W","i","n","d","o","w","s"," ","K","i","t","s","/","1","0","/","I","n","c","l","u","d","e","/","1","0",".","0",".","2","2","6","2","1",".","0","/","u","m","/","b",".","h">>}
      [] m = <<"W","i","n","d","o","w","s"," ","S","D","K"," ","f","o","r"," ","W","i","n","d","o","w","s"," ","S","t","o","r","e"," ","A","p","p","s"," ","L","i","b","s","-","x","8","6","_","e","n","-","u","s",".","m","s","i">> ->
            {<<"W","i","n","d","o","w","s"," ","K","i","t","s","/","1","0","/","L","i","b","/","1","0",".","0",".","2","2","6","2","1",".","0","/","u","m","/","x","6","4","/","a",".","l","i","b">>}
      [] m = <<"W","i","n","d","o","w","s"," ","S","D","K"," ","D","e","s","k","t","o","p"," ","L","i","b","s"," ","x","6","4","-","x","8","6","_","e","n","-","u","s",".","m","s","i">> ->
            {<<"W","i","n","d","o","w","s"," ","K","i","t","s","/","1","0","/","L","i","b","/","1","0",".","0",".","2","2","6","2","1",".","0","/","u","m","/","x","8","6","/","b",".","l","i","b">>}
      [] m = <<"U","n","i","v","e","r","s","a","l"," ","C","R","T"," ","H","e","a","d","e","r","s"," ","L","i","b","r","a","r","i","e","s"," ","a","n","d"," ","S","o","u","r","c","e","s","-","x","8","6","_","e","n","-","u","s",".","m","s","i">> ->
            {<<"W","i","n","d","o","w","s"," ","K","i","t","s","/","1","0","/","L","i","b","/","1","0",".","0",".","2","2","6","2","1",".","0","/","u","c","r","t","/","x","6","4","/","c",".","l","i","b">>, <<"W","i","n","d","o","w","s"," ","K","i","t","s","/","1","0","/","C","a","t","a","l","o","g","s","/","c",".","c","a","t">>}
      [] OTHER -> {}

\* what an earlier run for another release left in the install prefix
EarlierInstall ==
    {<<"V","C","/","T","o","o","l","s","/","M","S","V","C","/","1","4",".","2","9",".","3","0","1","3","3","/","b","i","n","/","H","o","s","t","x","6","4","/","x","6","4","/","c","l",".","e","x","e">>,
     <<"W","i","n","d","o","w","s"," ","K","i","t","s","/","1","0","/","b","i","n","/","1","0",".","0",".","1","9","0","4","1",".","0","/","x","6","4","/","r","c",".","e","x","e">>}

\* the templates beside installer.py: file name -> lines
Templates ==
    LET msvc == <<<<"s","e","t"," ","P","=","@","R","O","O","T","_","P","R","E","F","I","X","\\","V","C","\\","T","o","o","l","s","\\","M","S","V","C","\\","@","M","S","V","C","_","V","E","R","S","I","O","N","\n">>,
                  <<"s","e","t"," ","B","=","b","i","n","\\","H","o","s","t","@","{","H","O","S","T","_","A","R","C","H","}","\\","@","T","A","R","G","E","T","_","A","R","C","H","\n">>>>
        sdk == <<<<"s","e","t"," ","K","=","@","R","O","O","T","_","P","R","E","F","I","X","\\","W","i","n","d","o","w","s"," ","K","i","t","s","\\","1","0","\\","b","i","n","\\","@","S","D","K","_","V","E","R","S","I","O","N","\\","@","S","D","K","_","T","A","R","G","E","T","_","A","R","C","H","\n">>>>
    IN  [n \in {"activate_msvc.bat", "activate_msvc.ps1", "deactivate_msvc.bat", "deactivate_msvc.ps1"} |-> msvc]
        @@ [n \in {"activate_sdk.bat", "activate_sdk.ps1", "deactivate_sdk.bat", "deactivate_sdk.ps1"} |-> sdk]


\* ---------------------------------------------------------------- state
VARIABLES
    pc,            \* where main is
    args,          \* the command line: an option is drawn when main first reads it
    components,    \* set(args.components)
    packages,      \* the package index: keys in insertion order, records by key
    msvc,          \* MSVC version -> package identifier
    sdk,           \* Windows SDK version -> package identifier
    fs,            \* files under the install prefix: path -> the call that wrote it
    written,       \* the paths this run wrote under the install prefix
    hooks,         \* files under the script prefixes: path -> lines
    tmpdir,        \* install_sdk's temporary directory: file name -> the call that wrote it
    vc,            \* locals of install_vc_components
    sd,            \* locals of install_sdk
    trace,         \* the calls of download_progress and msiexec so far
    output,        \* what was printed, and the message the process ended with
    exit_status,   \* the status the process ended with, or Unset
    exit_error,    \* the exception that ended it, or None
    scan_msi,      \* the buffer handed to get_msi_cabs
    scan_pc,       \* "ready", "returned" or "raised"
    scan_names,    \* the names the generator yielded
    tmpl_files,    \* the files copy_and_rename works on: path -> lines
    tmpl_pc,       \* "ready", "returned" or "raised"
    tmpl_error     \* the exception copy_and_rename raised, or None

main_vars == <<pc, args, components, packages, msvc, sdk, fs, written, hooks, tmpdir,
               vc, sd, trace, output, exit_status, exit_error>>

scan_vars == <<scan_msi, scan_pc, scan_names>>

tmpl_vars == <<tmpl_files, tmpl_pc, tmpl_error>>

vars == <<main_vars, scan_vars, tmpl_vars>>

\* HOST and TARGET of main
HOST == <<"x","6","4">>

TARGET == <<"x","6","4">>

\* the install_prefix argument, relative to the root prefix
InstallPrefix == <<"m","s","v","c">>

available_components == {"msvc", "asan", "sdk", "crt"}

\* what --components may be given on the command line
ComponentWords == available_components \cup {"docs"}

Orders(S) ==
    {f \in [1..Cardinality(S) -> S] : \A i, j \in 1..Cardinality(S) : i # j => f[i] # f[j]}

Range(f) == {f[i] : i \in DOMAIN f}

\* ------------------------------------------------------------ the paths
\* whether path lies below the directory dir
IsUnder(path, dir) == StartsWith(path, dir \o <<"/">>)

\* shutil.rmtree(dir, ignore_errors=True)
RmTree(files, dir) == [p \in {q \in DOMAIN files : ~IsUnder(q, dir)} |-> files[p]]

RECURSIVE RmTrees(_, _)
RmTrees(files, dirs) ==
    IF Len(dirs) = 0 THEN files ELSE RmTrees(RmTree(files, Head(dirs)), Tail(dirs))

\* the names of dir.glob("*")
Glob(files, dir) ==
    {Split(SliceFrom(p, Len(dir) + 1), "/")[1] : p \in {q \in DOMAIN files : IsUnder(q, dir)}}

\* ------------------------------------------------------ download_progress
\* the block size of res.read
BlockSize == 1048576

RECURSIVE StreamFrom(_, _, _)
\* the read loop from the offset pos: the bytes written to the sink, and the
\* exception of the percentage (size * 100 // total) when total is 0
StreamFrom(res, pos, total) ==
    LET block == SubSeq(res.body, pos + 1, IF pos + BlockSize > Len(res.body)
                                            THEN Len(res.body) ELSE pos + BlockSize)
    IN  IF Len(block) = 0 THEN [error |-> None, sink |-> <<>>]
        ELSE IF total = 0 THEN [error |-> "ZeroDivisionError", sink |-> block]
        ELSE LET rest == StreamFrom(res, pos + Len(block), total)
             IN  [error |-> rest.error, sink |-> block \o rest.sink]

\* the same on the lengths alone
HashLengthMismatch(check, digest) == Len(Lower(check)) # Len(digest)

\* check.lower() != digest
HashMismatch(check, digest) == Lower(check) # digest

\* download_progress(url, check, name, f) on the response res the server gives:
\* how it ended ("returned", SystemExit or the exception raised), the bytes
\* written to f, the digest computed, and the data returned
\* the bodies the servers of this model send, and their digests, computed once
Bodies == {Genuine(u) : u \in Urls} \cup {Tampered(u) : u \in Urls}

Sha256Table == [b \in Bodies |-> sha256_hexdigest(b)]

\* line 37: hashlib.sha256(data).hexdigest()
Sha256(data) == IF data \in Bodies THEN Sha256Table[data] ELSE sha256_hexdigest(data)

download_progress(res, check) ==
    IF res.length = Unset
    THEN [outcome |-> "TypeError", sink |-> <<>>, digest |-> <<>>, data |-> <<>>]
    ELSE LET s == StreamFrom(res, 0, res.length)
         IN  IF s.error # None
             THEN [outcome |-> s.error, sink |-> s.sink, digest |-> <<>>, data |-> <<>>]
             ELSE LET digest == Sha256(s.sink)
                  IN  IF HashMismatch(check, digest)
                      THEN [outcome |-> "SystemExit", sink |-> s.sink, digest |-> digest, data |-> <<>>]
                      ELSE [outcome |-> "returned", sink |-> s.sink, digest |-> digest, data |-> s.sink]

\* the responses a server may give for a url: the published body, the same
\* without a Content-Length header, or another body
Responses(url) ==
    {[length |-> Len(Genuine(url)), body |-> Genuine(url)],
     [length |-> Unset, body |-> Genuine(url)],
     [length |-> Len(Tampered(url)), body |-> Tampered(url)]}

\* the record trace keeps of a call of download_progress: digest is empty
\* when none was computed, complete says that every block reached the sink
DownloadEvent(phase, name, payload, res, r) ==
    [op |-> "download_progress", phase |-> phase, name |-> name, url |-> payload.url,
     check |-> payload.sha256, length |-> res.length, digest |-> r.digest,
     complete |-> (r.sink = res.body), outcome |-> r.outcome]

\* ------------------------------------------------------------- the exits
NoTmpdir == [open |-> FALSE, files |-> <<>>]

\* exit(status), exit(message) or an uncaught exception: the process ends and
\* every with block on the way out cleans up
Exit(status, error, out) ==
    /\ pc' = "exit"
    /\ exit_status' = status
    /\ exit_error' = error
    /\ output' = output \o out
    /\ tmpdir' = NoTmpdir

Say(out) == output' = output \o out

\* ------------------------------------------------------------------ main
NoComponents == [set |-> {}]

NoPackages == [keys |-> <<>>, recs |-> <<>>]

NoVc == [msvc_ver |-> <<>>, selected |-> <<>>, i |-> 0, j |-> 0, total_download |-> 0, msvcv |-> Absent]

NoSd == [pkg |-> <<>>, msi |-> <<>>, cabs |-> <<>>, i |-> 0, total_download |-> 0, sdkv |-> Absent]

ScanIdle == scan_msi = <<>> /\ scan_pc = "idle" /\ scan_names = <<>>

TmplIdle == tmpl_files = <<>> /\ tmpl_pc = "idle" /\ tmpl_error = None

\* what --components may be given: up to MaxComponents words, each once (line
\* 451 makes a set of them, so a word given twice selects what it selects
\* given once)
Selections ==
    {s \in SeqsUpTo(ComponentWords, MaxComponents) : Len(s) > 0 /\ Cardinality(Range(s)) = Len(s)}

Init ==
    /\ pc = "license"
    /\ \E cs \in {Absent} \cup Selections,
          sv \in BOOLEAN, al \in BOOLEAN :
          args = [components |-> cs, show_versions |-> sv, accept_license |-> al]
    /\ components = NoComponents
    /\ packages = NoPackages
    /\ msvc = <<>>
    /\ sdk = <<>>
    /\ \/ fs = <<>>
       \/ fs = [p \in EarlierInstall |-> 0]
    /\ written = {}
    /\ hooks = <<>>
    /\ tmpdir = NoTmpdir
    /\ vc = NoVc
    /\ sd = NoSd
    /\ trace = <<>>
    /\ output = <<>>
    /\ exit_status = Unset
    /\ exit_error = None
    /\ ScanIdle
    /\ TmplIdle

\* lines 442-443: the channel manifest and agree_to_license
AgreeToLicense ==
    /\ pc = "license"
    /\ IF args.accept_license
       THEN /\ pc' = "components"
            /\ Say(<<[msg |-> "license accepted by flag"]>>)
            /\ UNCHANGED <<exit_status, exit_error, tmpdir>>
       ELSE \E accept \in {<<"Y","e","s">>, <<"n","o">>, <<>>} :
               IF Len(accept) = 0 \/ LowerChar(accept[1]) # "y"
               THEN Exit(0, "SystemExit", <<[msg |-> "Do you accept Visual Studio license", answer |-> accept]>>)
               ELSE /\ pc' = "components"
                    /\ Say(<<[msg |-> "Do you accept Visual Studio license", answer |-> accept]>>)
                    /\ UNCHANGED <<exit_status, exit_error, tmpdir>>
    /\ UNCHANGED <<args, components, packages, msvc, sdk, fs, written, hooks, vc, sd, trace,
                   scan_vars, tmpl_vars>>

\* lines 445-454: get_prefixes and the selection of components
SelectComponents ==
    /\ pc = "components"
    /\ IF args.components = Absent
       THEN /\ Exit(0, "SystemExit", <<[msg |-> "installation prefix"], [msg |-> "select a component"]>>)
            /\ UNCHANGED components
       ELSE LET set == Range(args.components)
            IN  IF ~(set \subseteq available_components)
                THEN /\ Exit(1, "ValueError", <<[msg |-> "installation prefix"]>>)
                     /\ UNCHANGED components
                ELSE /\ components' = [set |-> set]
                     /\ pc' = "manifest"
                     /\ Say(<<[msg |-> "installation prefix"]>>)
                     /\ UNCHANGED <<exit_status, exit_error, tmpdir>>
    /\ UNCHANGED <<args, packages, msvc, sdk, fs, written, hooks, vc, sd, trace,
                   scan_vars, tmpl_vars>>

\* ------------------------------------------------- the manifest resolver
RECURSIVE IndexFrom(_, _, _)
\* lines 466-468: packages.setdefault(p["id"].lower(), []).append(p)
IndexFrom(manifest, i, index) ==
    IF i > Len(manifest) THEN index
    ELSE LET p == manifest[i]
             key == Lower(p.id)
         IN  IF key \in DOMAIN index.recs
             THEN IndexFrom(manifest, i + 1,
                      [index EXCEPT !.recs = [index.recs EXCEPT ![key] = Append(@, p)]])
             ELSE IndexFrom(manifest, i + 1,
                      [keys |-> Append(index.keys, key), recs |-> index.recs @@ (key :> <<p>>)])

\* d[key] = value
Put(d, key, value) == [k \in DOMAIN d \cup {key} |-> IF k = key THEN value ELSE d[k]]

\* the same with two fields instead of three
MsvcVersionKeyShort(pkg_id) == Join(Slice(Split(pkg_id, "."), 4, 6), ".")

\* line 477: the version key of an MSVC component identifier
MsvcVersionKey(pkg_id) == Join(Slice(Split(pkg_id, "."), 4, 7), ".")

\* line 485: the version key of a Windows SDK component identifier
SdkVersionKey(pkg_id) == LET parts == Split(pkg_id, ".") IN parts[Len(parts)]

RECURSIVE DiscoverFrom(_, _, _)
\* lines 473-487: the loop over packages.items(), in insertion order
DiscoverFrom(keys, i, found) ==
    IF i > Len(keys) THEN found
    ELSE LET pkg_id == keys[i]
         IN  IF /\ StartsWith(pkg_id, Lower(<<"M","i","c","r","o","s","o","f","t",".","V","i","s","u","a","l","S","t","u","d","i","o",".","C","o","m","p","o","n","e","n","t",".","V","C",".">>))
                /\ EndsWith(pkg_id, Lower(<<".","x","8","6",".","x","6","4">>))
             THEN LET pkg_ver == MsvcVersionKey(pkg_id)
                  IN  IF pkg_ver[1] \in Digits
                      THEN DiscoverFrom(keys, i + 1, [found EXCEPT !.msvc = Put(@, pkg_ver, pkg_id)])
                      ELSE DiscoverFrom(keys, i + 1, found)
             ELSE IF \/ StartsWith(pkg_id, Lower(<<"M","i","c","r","o","s","o","f","t",".","V","i","s","u","a","l","S","t","u","d","i","o",".","C","o","m","p","o","n","e","n","t",".","W","i","n","d","o","w","s","1","0","S","D","K",".">>))
                     \/ StartsWith(pkg_id, Lower(<<"M","i","c","r","o","s","o","f","t",".","V","i","s","u","a","l","S","t","u","d","i","o",".","C","o","m","p","o","n","e","n","t",".","W","i","n","d","o","w","s","1","1","S","D","K",".">>))
             THEN LET pkg_ver == SdkVersionKey(pkg_id)
                  IN  IF IsNumeric(pkg_ver)
                      THEN DiscoverFrom(keys, i + 1, [found EXCEPT !.sdk = Put(@, pkg_ver, pkg_id)])
                      ELSE DiscoverFrom(keys, i + 1, found)
             ELSE DiscoverFrom(keys, i + 1, found)

\* lines 456-487: the product manifest, the package index and the version maps
ResolveManifest ==
    /\ pc = "manifest"
    /\ \E manifest \in Manifests :
          LET index == IndexFrom(manifest, 1, NoPackages)
              found == DiscoverFrom(index.keys, 1, [msvc |-> <<>>, sdk |-> <<>>])
          IN  /\ packages' = index
              /\ msvc' = found.msvc
              /\ sdk' = found.sdk
    /\ pc' = "show"
    /\ UNCHANGED <<args, components, fs, written, hooks, tmpdir, vc, sd, trace, output,
                   exit_status, exit_error, scan_vars, tmpl_vars>>

\* lines 489-492: --show-versions (the keys are printed sorted)
ShowVersions ==
    /\ pc = "show"
    /\ IF args.show_versions
       THEN Exit(0, "SystemExit", <<[msg |-> "MSVC versions:", versions |-> DOMAIN msvc],
                                    [msg |-> "Windows SDK versions:", versions |-> DOMAIN sdk]>>)
       ELSE /\ pc' = "vc"
            /\ UNCHANGED <<output, exit_status, exit_error, tmpdir>>
    /\ UNCHANGED <<args, components, packages, msvc, sdk, fs, written, hooks, vc, sd, trace,
                   scan_vars, tmpl_vars>>

\* ------------------------------------------------- install_vc_components
\* lines 100-120: the packages of each component
vc_packages(msvc_ver, host, target) ==
    [msvc |-> <<<<"m","i","c","r","o","s","o","f","t",".","v","c",".">> \o msvc_ver \o <<".","t","o","o","l","s",".","h","o","s","t">> \o host \o <<".","t","a","r","g","e","t">> \o target \o <<".","b","a","s","e">>,
                <<"m","i","c","r","o","s","o","f","t",".","v","c",".">> \o msvc_ver \o <<".","t","o","o","l","s",".","h","o","s","t">> \o host \o <<".","t","a","r","g","e","t">> \o target \o <<".","r","e","s",".","b","a","s","e">>>>,
     crt |-> <<<<"m","i","c","r","o","s","o","f","t",".","v","c",".">> \o msvc_ver \o <<".","c","r","t",".","h","e","a","d","e","r","s",".","b","a","s","e">>,
               <<"m","i","c","r","o","s","o","f","t",".","v","c",".">> \o msvc_ver \o <<".","c","r","t",".">> \o target \o <<".","d","e","s","k","t","o","p",".","b","a","s","e">>,
               <<"m","i","c","r","o","s","o","f","t",".","v","c",".">> \o msvc_ver \o <<".","c","r","t",".">> \o target \o <<".","s","t","o","r","e",".","b","a","s","e">>,
               <<"m","i","c","r","o","s","o","f","t",".","v","c",".">> \o msvc_ver \o <<".","c","r","t",".","s","o","u","r","c","e",".","b","a","s","e">>>>,
     asan |-> <<<<"m","i","c","r","o","s","o","f","t",".","v","c",".">> \o msvc_ver \o <<".","a","s","a","n",".","h","e","a","d","e","r","s",".","b","a","s","e">>,
                <<"m","i","c","r","o","s","o","f","t",".","v","c",".">> \o msvc_ver \o <<".","a","s","a","n",".">> \o target \o <<".","b","a","s","e">>>>]

\* vc_packages.get(component, [])
PackagesOf(component, msvc_ver, host, target) ==
    IF component \in DOMAIN vc_packages(msvc_ver, host, target)
    THEN vc_packages(msvc_ver, host, target)[component]
    ELSE <<>>

\* lines 121-123: selected_msvc_components, for components iterated in `order`
selected_msvc_components(order, msvc_ver, host, target) ==
    Concat([k \in 1..Len(order) |-> PackagesOf(order[k], msvc_ver, host, target)])

\* the same with a fallback: the identifier of some version when the one asked
\* for is not there
ResolveOrAny(versions, version) ==
    IF version \in DOMAIN versions THEN versions[version]
    ELSE IF DOMAIN versions = {} THEN Absent
    ELSE versions[CHOOSE v \in DOMAIN versions : TRUE]

\* lines 495-496 and 513-514: the package identifier of a requested version,
\* Absent when the version map does not have it
Resolve(versions, version) ==
    IF version \in DOMAIN versions THEN versions[version] ELSE Absent

\* what --msvc-version may be
MsvcVersionChoices == {Absent, <<"1","4",".","3","8">>, <<"1","4",".","3","8",".","3","3","1","3","0">>}

\* lines 494-508 and 99-127: the version check and the start of
\* install_vc_components; line 121 iterates the set of components, in an
\* order that differs from run to run
StartVc ==
    /\ pc = "vc"
    /\ IF components.set \cap {"msvc", "crt", "asan"} = {}
       THEN /\ pc' = "sdk"
            /\ UNCHANGED <<args, vc, output, exit_status, exit_error, tmpdir>>
       ELSE \E msvc_version \in MsvcVersionChoices, order \in Orders(components.set) :
               /\ args' = args @@ [msvc_version |-> msvc_version]
               /\ IF Resolve(msvc, msvc_version) # Absent
                  THEN LET msvc_pkg_id == Resolve(msvc, msvc_version)
                           msvc_ver == Join(Slice(Split(msvc_pkg_id, "."), 4, -2), ".")
                           selected == selected_msvc_components(order, msvc_ver, HOST, TARGET)
                       IN  /\ vc' = [NoVc EXCEPT !.msvc_ver = msvc_ver, !.selected = selected,
                                                 !.i = 1, !.j = 1]
                           /\ pc' = "vc_download"
                           /\ Say(<<[msg |-> "Starting installation of VC component(s)"],
                                    [msg |-> "Selected payload(s) are:", selected |-> selected],
                                    [msg |-> "Starting download"]>>)
                           /\ UNCHANGED <<exit_status, exit_error, tmpdir>>
                  ELSE /\ Exit(1, "SystemExit", <<[msg |-> "Available MSVC versions are:", versions |-> msvc],
                                                  [msg |-> "Unknown MSVC version:", version |-> msvc_version]>>)
                       /\ UNCHANGED vc
    /\ UNCHANGED <<components, packages, msvc, sdk, fs, written, hooks, sd, trace,
                   scan_vars, tmpl_vars>>

\* z.namelist()
ZipNamelist(data) == Split(data, "\n")

\* lines 135-139: where the members of an archive under Contents/ are written
ExtractedPaths(data) ==
    {SliceFrom(name, Len(<<"C","o","n","t","e","n","t","s","/">>)) :
        name \in {n \in Range(ZipNamelist(data)) : StartsWith(n, <<"C","o","n","t","e","n","t","s","/">>)}}

\* line 129: the language test of the lambda
EnglishOrNeutral(p) == p.language \in {Absent, <<"e","n","-","U","S">>}

\* the records first() searches, in order
EnglishOrNeutralOf(recs) == SelectSeq(recs, EnglishOrNeutral)

\* lines 128-139: one payload of the download loop of install_vc_components
VcPayload ==
    /\ pc = "vc_download"
    /\ vc.i <= Len(vc.selected)
    /\ LET pkg == vc.selected[vc.i]
       IN  IF pkg \notin DOMAIN packages.recs
           THEN /\ Exit(1, "KeyError", <<>>)
                /\ UNCHANGED <<vc, fs, written, trace>>
           ELSE IF Len(EnglishOrNeutralOf(packages.recs[pkg])) = 0
           THEN /\ Exit(1, "StopIteration", <<>>)
                /\ UNCHANGED <<vc, fs, written, trace>>
           ELSE LET p == EnglishOrNeutralOf(packages.recs[pkg])[1]
                IN  IF vc.j > Len(p.payloads)
                    THEN /\ vc' = [vc EXCEPT !.i = @ + 1, !.j = 1]
                         /\ UNCHANGED <<pc, fs, written, trace, output, exit_status, exit_error, tmpdir>>
                    ELSE \E res \in Responses(p.payloads[vc.j].url) :
                            LET payload == p.payloads[vc.j]
                                r == download_progress(res, payload.sha256)
                                call == Len(trace) + 1
                            IN  /\ trace' = Append(trace, DownloadEvent("vc", pkg, payload, res, r))
                                /\ IF r.outcome = "returned"
                                   THEN /\ fs' = [q \in ExtractedPaths(r.data) |-> call] @@ fs
                                        /\ written' = written \cup ExtractedPaths(r.data)
                                        /\ vc' = [vc EXCEPT !.total_download = @ + Len(r.data),
                                                            !.i = IF vc.j = Len(p.payloads) THEN @ + 1 ELSE @,
                                                            !.j = IF vc.j = Len(p.payloads) THEN 1 ELSE @ + 1]
                                        /\ UNCHANGED <<pc, output, exit_status, exit_error, tmpdir>>
                                   ELSE /\ Exit(1, r.outcome,
                                                IF r.outcome = "SystemExit"
                                                THEN <<[msg |-> "Hash mismatch for package", name |-> pkg]>>
                                                ELSE <<>>)
                                        /\ UNCHANGED <<vc, fs, written>>
    /\ UNCHANGED <<args, components, packages, msvc, sdk, hooks, sd, scan_vars, tmpl_vars>>

MsvcDir == <<"V","C","/","T","o","o","l","s","/","M","S","V","C">>

\* lines 141-159: the installed version, read back from the install prefix
\* (glob lists a directory in no particular order), and the cleaning
VcDiscover ==
    /\ pc = "vc_download"
    /\ vc.i > Len(vc.selected)
    /\ IF Glob(fs, MsvcDir) = {}
       THEN /\ Exit(1, "SystemExit", <<[msg |-> "VC component(s) total download"],
                                       [msg |-> "Error during vc components installation"]>>)
            /\ UNCHANGED <<vc, fs>>
       ELSE \E msvcv \in Glob(fs, MsvcDir) :
               LET root == MsvcDir \o <<"/">> \o msvcv \o <<"/">>
               IN  /\ vc' = [vc EXCEPT !.msvcv = msvcv]
                   /\ fs' = RmTrees(fs, <<root \o <<"A","u","x","i","l","i","a","r","y">>,
                                          root \o <<"l","i","b","/">> \o TARGET \o <<"/","s","t","o","r","e">>,
                                          root \o <<"l","i","b","/">> \o TARGET \o <<"/","u","w","p">>>>
                                        \o SelectSeq(<<root \o <<"b","i","n","/","H","o","s","t","x","8","6">>, root \o <<"b","i","n","/","H","o","s","t","x","6","4">>,
                                                       root \o <<"b","i","n","/","H","o","s","t","a","r","m">>, root \o <<"b","i","n","/","H","o","s","t","a","r","m","6","4">>>>,
                                                     LAMBDA d : d # root \o <<"b","i","n","/","H","o","s","t">> \o TARGET))
                   /\ pc' = "vc_hooks"
                   /\ Say(<<[msg |-> "VC component(s) total download"], [msg |-> "Cleaning unused components"]>>)
                   /\ UNCHANGED <<exit_status, exit_error, tmpdir>>
    /\ UNCHANGED <<args, components, packages, msvc, sdk, written, hooks, sd, trace,
                   scan_vars, tmpl_vars>>

RECURSIVE CopyAll(_, _, _)
\* the calls of copy_and_rename of one install phase, in order, up to the
\* first that raises: jobs are <<source, target>>
CopyAll(files, jobs, substitutes) ==
    IF Len(jobs) = 0 THEN [error |-> None, files |-> files]
    ELSE LET r == copy_and_rename(files, Head(jobs)[1], Head(jobs)[2], substitutes)
         IN  IF r.error # None THEN r ELSE CopyAll(r.files, Tail(jobs), substitutes)

\* lines 176-201 and 316-341: the templates and targets of a phase, kind
\* being "msvc" or "sdk" and the target "msvc" or "win-sdk"
HookJobs(kind, target, activation, deactivation) ==
    (IF activation
     THEN <<<<"activate_" \o kind \o ".bat", "activate/vs2022_buildtools-" \o target \o ".bat">>,
            <<"activate_" \o kind \o ".ps1", "activate/vs2022_buildtools-" \o target \o ".ps1">>>>
     ELSE <<>>)
    \o
    (IF deactivation
     THEN <<<<"deactivate_" \o kind \o ".bat", "deactivate/vs2022_buildtools-" \o target \o ".bat">>,
            <<"deactivate_" \o kind \o ".ps1", "deactivate/vs2022_buildtools-" \o target \o ".ps1">>>>
     ELSE <<>>)

\* the files under the script prefixes after the hooks of a phase
HooksAfter(files, kind, target, activation, deactivation, substitutes) ==
    LET r == CopyAll(Templates @@ files, HookJobs(kind, target, activation, deactivation), substitutes)
    IN  [error |-> r.error,
         files |-> [p \in DOMAIN r.files \ DOMAIN Templates |-> r.files[p]]]

\* lines 161-167: no placeholder is given and the install prefix is relative
scripts_root_prefix_placeholder == InstallPrefix

\* lines 169-174
msvc_substitutes(msvcv, host, target) ==
    (<<"R","O","O","T","_","P","R","E","F","I","X">> :> scripts_root_prefix_placeholder) @@ (<<"M","S","V","C","_","V","E","R","S","I","O","N">> :> msvcv)
    @@ (<<"H","O","S","T","_","A","R","C","H">> :> host) @@ (<<"T","A","R","G","E","T","_","A","R","C","H">> :> target)

\* lines 310-314
sdk_substitutes(sdkv, target) ==
    (<<"R","O","O","T","_","P","R","E","F","I","X">> :> scripts_root_prefix_placeholder) @@ (<<"S","D","K","_","V","E","R","S","I","O","N">> :> sdkv)
    @@ (<<"S","D","K","_","T","A","R","G","E","T","_","A","R","C","H">> :> target)

\* the script prefixes: what the first phase that reads them finds, the
\* second finds too
ScriptPrefixes ==
    IF "activation_scripts_prefix" \in DOMAIN args
    THEN {[activation_scripts_prefix |-> args.activation_scripts_prefix,
           deactivation_scripts_prefix |-> args.deactivation_scripts_prefix]}
    ELSE [activation_scripts_prefix : BOOLEAN, deactivation_scripts_prefix : BOOLEAN]

\* lines 161-203: the hooks of the toolchain
VcHooks ==
    /\ pc = "vc_hooks"
    /\ \E prefixes \in ScriptPrefixes :
          LET r == HooksAfter(hooks, "msvc", "msvc", prefixes.activation_scripts_prefix,
                              prefixes.deactivation_scripts_prefix,
                              msvc_substitutes(vc.msvcv, HOST, TARGET))
          IN  /\ args' = prefixes @@ args
              /\ hooks' = r.files
              /\ IF r.error # None
                 THEN Exit(1, r.error, <<>>)
                 ELSE /\ pc' = "sdk"
                      /\ Say(<<[msg |-> "VC component(s) successfully installed"]>>)
                      /\ UNCHANGED <<exit_status, exit_error, tmpdir>>
    /\ UNCHANGED <<components, packages, msvc, sdk, fs, written, vc, sd, trace,
                   scan_vars, tmpl_vars>>

\* ----------------------------------------------------------- install_sdk
\* lines 215-228
sdk_packages(target) ==
    <<<<"W","i","n","d","o","w","s"," ","S","D","K"," ","f","o","r"," ","W","i","n","d","o","w","s"," ","S","t","o","r","e"," ","A","p","p","s"," ","T","o","o","l","s","-","x","8","6","_","e","n","-","u","s",".","m","s","i">>,
      <<"W","i","n","d","o","w","s"," ","S","D","K"," ","f","o","r"," ","W","i","n","d","o","w","s"," ","S","t","o","r","e"," ","A","p","p","s"," ","H","e","a","d","e","r","s","-","x","8","6","_","e","n","-","u","s",".","m","s","i">>,
      <<"W","i","n","d","o","w","s"," ","S","D","K"," ","D","e","s","k","t","o","p"," ","H","e","a","d","e","r","s"," ","x","8","6","-","x","8","6","_","e","n","-","u","s",".","m","s","i">>,
      <<"W","i","n","d","o","w","s"," ","S","D","K"," ","f","o","r"," ","W","i","n","d","o","w","s"," ","S","t","o","r","e"," ","A","p","p","s"," ","L","i","b","s","-","x","8","6","_","e","n","-","u","s",".","m","s","i">>,
      <<"W","i","n","d","o","w","s"," ","S","D","K"," ","D","e","s","k","t","o","p"," ","L","i","b","s"," ">> \o target \o <<"-","x","8","6","_","e","n","-","u","s",".","m","s","i">>,
      <<"U","n","i","v","e","r","s","a","l"," ","C","R","T"," ","H","e","a","d","e","r","s"," ","L","i","b","r","a","r","i","e","s"," ","a","n","d"," ","S","o","u","r","c","e","s","-","x","8","6","_","e","n","-","u","s",".","m","s","i">>>>

\* what --sdk-version and --sdk-win-version may be
SdkVersionChoices == {Absent, <<"2","2","6","2","1">>, <<"1","9","0","4","1">>, <<"1","8","3","6","2">>}

SdkWinVersionChoices == {Absent, <<"W","i","n","d","o","w","s","1","1","S","D","K">>, <<"1","0">>}

\* the same without the test of the identifier
IncompatibleUnlessGiven(sdk_win_version, sdk_pkg_id) == sdk_win_version = Absent

\* line 515: the SDK does not match the Windows version asserted
Incompatible(sdk_win_version, sdk_pkg_id) ==
    sdk_win_version = Absent \/ ~Contains(sdk_pkg_id, Lower(sdk_win_version))

\* lines 510-530 and 213-239: the checks of the SDK and the start of install_sdk
StartSdk ==
    /\ pc = "sdk"
    /\ IF "sdk" \notin components.set
       THEN /\ pc' = "exit"
            /\ exit_status' = 0
            /\ UNCHANGED <<args, sd, output, exit_error, tmpdir>>
       ELSE \E sdk_version \in SdkVersionChoices, sdk_win_version \in SdkWinVersionChoices :
               /\ args' = args @@ [sdk_version |-> sdk_version, sdk_win_version |-> sdk_win_version]
               /\ IF Resolve(sdk, sdk_version) = Absent
                  THEN /\ Exit(1, "SystemExit", <<[msg |-> "Available SDK versions are:", versions |-> sdk],
                                                  [msg |-> "Unknown Windows SDK version:", version |-> sdk_version]>>)
                       /\ UNCHANGED sd
                  ELSE IF Incompatible(sdk_win_version, Resolve(sdk, sdk_version))
                  THEN /\ Exit(1, "SystemExit", <<[msg |-> "SDK is not compatible with Windows version",
                                                   version |-> sdk_win_version, available |-> sdk]>>)
                       /\ UNCHANGED sd
                  ELSE LET sdk_pkg == packages.recs[Resolve(sdk, sdk_version)][1]
                       IN  IF Len(sdk_pkg.dependencies) = 0
                           THEN /\ Exit(1, "StopIteration", <<>>)
                                /\ UNCHANGED sd
                           ELSE IF Lower(sdk_pkg.dependencies[1]) \notin DOMAIN packages.recs
                           THEN /\ Exit(1, "KeyError", <<>>)
                                /\ UNCHANGED sd
                           ELSE /\ sd' = [NoSd EXCEPT !.pkg = Lower(sdk_pkg.dependencies[1]), !.i = 1]
                                /\ tmpdir' = [open |-> TRUE, files |-> <<>>]
                                /\ pc' = "sdk_msi"
                                /\ UNCHANGED <<output, exit_status, exit_error>>
    /\ UNCHANGED <<components, packages, msvc, sdk, fs, written, hooks, vc, trace,
                   scan_vars, tmpl_vars>>

\* the payloads of the package the SDK component points to
SdkPayloadsOf(pkg) == packages.recs[pkg][1].payloads

\* lines 241-243 and 252-254: the payloads whose fileName is Installers\name
Named(payloads, name) ==
    SelectSeq(payloads, LAMBDA p : p.fileName = <<"I","n","s","t","a","l","l","e","r","s","\\">> \o name)

\* lines 240-249: one installer database of the first loop of install_sdk
SdkMsi ==
    /\ pc = "sdk_msi"
    /\ LET pkg == sdk_packages(TARGET)[sd.i]
           found == Named(SdkPayloadsOf(sd.pkg), pkg)
       IN  IF Len(found) = 0
           THEN /\ Exit(1, "StopIteration", <<>>)
                /\ UNCHANGED <<sd, trace>>
           ELSE \E res \in Responses(found[1].url) :
                   LET r == download_progress(res, found[1].sha256)
                       call == Len(trace) + 1
                       names == get_msi_cabs(r.data)
                       last == sd.i = Len(sdk_packages(TARGET))
                   IN  /\ trace' = Append(trace, DownloadEvent("sdk", pkg, found[1], res, r))
                       /\ IF r.outcome # "returned"
                          THEN /\ Exit(1, r.outcome,
                                       IF r.outcome = "SystemExit"
                                       THEN <<[msg |-> "Hash mismatch for package", name |-> pkg]>>
                                       ELSE <<>>)
                               /\ UNCHANGED sd
                          ELSE IF names.raised
                          THEN /\ Exit(1, "UnicodeDecodeError", <<>>)
                               /\ UNCHANGED sd
                          ELSE /\ sd' = [sd EXCEPT !.msi = Append(@, pkg),
                                                   !.cabs = @ \o names.names,
                                                   !.total_download = @ + Len(r.data),
                                                   !.i = IF last THEN 1 ELSE @ + 1]
                               /\ tmpdir' = [tmpdir EXCEPT !.files = (pkg :> call) @@ @]
                               /\ pc' = IF ~last THEN "sdk_msi"
                                        ELSE IF Len(sd.cabs \o names.names) = 0 THEN "sdk_unpack"
                                        ELSE "sdk_cab"
                               /\ IF last THEN Say(<<[msg |-> "SDK total download"]>>)
                                  ELSE UNCHANGED output
                               /\ UNCHANGED <<exit_status, exit_error>>
    /\ UNCHANGED <<args, components, packages, msvc, sdk, fs, written, hooks, vc,
                   scan_vars, tmpl_vars>>

\* lines 251-256: one cabinet of the second loop of install_sdk
SdkCab ==
    /\ pc = "sdk_cab"
    /\ LET pkg == sd.cabs[sd.i]
           found == Named(SdkPayloadsOf(sd.pkg), pkg)
       IN  IF Len(found) = 0
           THEN /\ Exit(1, "StopIteration", <<>>)
                /\ UNCHANGED <<sd, trace>>
           ELSE \E res \in Responses(found[1].url) :
                   LET r == download_progress(res, found[1].sha256)
                       call == Len(trace) + 1
                       last == sd.i = Len(sd.cabs)
                   IN  /\ trace' = Append(trace, DownloadEvent("sdk", pkg, found[1], res, r))
                       /\ IF r.outcome # "returned"
                          THEN /\ Exit(1, r.outcome,
                                       IF r.outcome = "SystemExit"
                                       THEN <<[msg |-> "Hash mismatch for package", name |-> pkg]>>
                                       ELSE <<>>)
                               /\ UNCHANGED sd
                          ELSE /\ sd' = [sd EXCEPT !.i = IF last THEN 1 ELSE @ + 1]
                               /\ tmpdir' = [tmpdir EXCEPT !.files = (pkg :> call) @@ @]
                               /\ pc' = IF last THEN "sdk_unpack" ELSE "sdk_cab"
                               /\ IF last THEN Say(<<[msg |-> "Unpacking msi files"]>>)
                                  ELSE UNCHANGED output
                               /\ UNCHANGED <<exit_status, exit_error>>
    /\ UNCHANGED <<args, components, packages, msvc, sdk, fs, written, hooks, vc,
                   scan_vars, tmpl_vars>>

\* lines 259-269: msiexec on one installer database; check_call raises on a
\* status that is not 0
SdkUnpack ==
    /\ pc = "sdk_unpack"
    /\ LET m == sd.msi[sd.i]
           call == Len(trace) + 1
           last == sd.i = Len(sd.msi)
       IN  \E status \in {0, 1} :
              /\ trace' = Append(trace, [op |-> "msiexec", phase |-> "sdk", name |-> m,
                                          file |-> tmpdir.files[m], status |-> status])
              /\ IF status # 0
                 THEN /\ Exit(1, "CalledProcessError", <<>>)
                      /\ UNCHANGED <<sd, fs, written>>
                 ELSE /\ fs' = [q \in Unpacked(m) |-> call] @@ fs
                      /\ written' = written \cup Unpacked(m)
                      /\ sd' = [sd EXCEPT !.i = @ + 1]
                      /\ pc' = IF last THEN "sdk_glob" ELSE "sdk_unpack"
                      /\ UNCHANGED <<output, exit_status, exit_error, tmpdir>>
    /\ UNCHANGED <<args, components, packages, msvc, sdk, hooks, vc, scan_vars, tmpl_vars>>

SdkBinDir == <<"W","i","n","d","o","w","s"," ","K","i","t","s","/","1","0","/","b","i","n">>

\* the files of the install prefix itself that match *.msi
MsiFiles(files) == {p \in DOMAIN files : ~Contains(p, <<"/">>) /\ EndsWith(p, <<".","m","s","i">>)}

\* lines 271-300: the installed version, read back from the install prefix,
\* the end of the temporary directory, and the cleaning
SdkDiscover ==
    /\ pc = "sdk_glob"
    /\ IF Glob(fs, SdkBinDir) = {}
       THEN /\ Exit(1, "IndexError", <<>>)
            /\ UNCHANGED <<sd, fs>>
       ELSE \E sdkv \in Glob(fs, SdkBinDir) :
               LET kits == <<"W","i","n","d","o","w","s"," ","K","i","t","s","/","1","0","/">>
                   others == SelectSeq(<<<<"x","8","6">>, <<"x","6","4">>, <<"a","r","m">>, <<"a","r","m","6","4">>>>, LAMBDA a : a # TARGET)
                   kept == [p \in DOMAIN fs \ MsiFiles(fs) |-> fs[p]]
               IN  /\ sd' = [sd EXCEPT !.sdkv = sdkv]
                   /\ tmpdir' = NoTmpdir
                   /\ fs' = RmTrees(kept,
                               <<<<"C","o","m","m","o","n","7">>, kits \o <<"C","a","t","a","l","o","g","s">>, kits \o <<"D","e","s","i","g","n","T","i","m","e">>,
                                 kits \o <<"b","i","n","/">> \o sdkv \o <<"/","c","h","p","e">>,
                                 kits \o <<"L","i","b","/">> \o sdkv \o <<"/","u","c","r","t","_","e","n","c","l","a","v","e">>>>
                               \o Concat([k \in 1..Len(others) |->
                                            <<kits \o <<"b","i","n","/">> \o sdkv \o <<"/">> \o others[k],
                                              kits \o <<"L","i","b","/">> \o sdkv \o <<"/","u","c","r","t","/">> \o others[k],
                                              kits \o <<"L","i","b","/">> \o sdkv \o <<"/","u","m","/">> \o others[k]>>]))
                   /\ pc' = "sdk_hooks"
                   /\ Say(<<[msg |-> "Cleaning unused components"]>>)
                   /\ UNCHANGED <<exit_status, exit_error>>
    /\ UNCHANGED <<args, components, packages, msvc, sdk, written, hooks, vc, trace,
                   scan_vars, tmpl_vars>>

\* lines 302-343: the hooks of the SDK, and the end of main
SdkHooks ==
    /\ pc = "sdk_hooks"
    /\ \E prefixes \in ScriptPrefixes :
          LET r == HooksAfter(hooks, "sdk", "win-sdk", prefixes.activation_scripts_prefix,
                              prefixes.deactivation_scripts_prefix,
                              sdk_substitutes(sd.sdkv, TARGET))
          IN  /\ args' = prefixes @@ args
              /\ hooks' = r.files
              /\ IF r.error # None
                 THEN Exit(1, r.error, <<>>)
                 ELSE /\ pc' = "exit"
                      /\ exit_status' = 0
                      /\ Say(<<[msg |-> "SDK successfully installed"]>>)
                      /\ UNCHANGED <<exit_error, tmpdir>>
    /\ UNCHANGED <<components, packages, msvc, sdk, fs, written, vc, sd, trace,
                   scan_vars, tmpl_vars>>

Next ==
    \/ AgreeToLicense
    \/ SelectComponents
    \/ ResolveManifest
    \/ ShowVersions
    \/ StartVc
    \/ VcPayload
    \/ VcDiscover
    \/ VcHooks
    \/ StartSdk
    \/ SdkMsi
    \/ SdkCab
    \/ SdkUnpack
    \/ SdkDiscover
    \/ SdkHooks

Spec == Init /\ [][Next]_vars


\* main has not started: the state of the specifications of one function
MainIdle ==
    /\ pc = "idle"
    /\ args = <<>>
    /\ components = NoComponents
    /\ packages = NoPackages
    /\ msvc = <<>>
    /\ sdk = <<>>
    /\ fs = <<>>
    /\ written = {}
    /\ hooks = <<>>
    /\ tmpdir = NoTmpdir
    /\ vc = NoVc
    /\ sd = NoSd
    /\ trace = <<>>
    /\ output = <<>>
    /\ exit_status = Unset
    /\ exit_error = None

\* ---------------------------------------------- get_msi_cabs, on its own
\* the pieces scanned buffers are built from
ScanPieces == {CabMarker, <<"x">>, <<".">>, <<NonAscii>>}

ScanInit ==
    /\ scan_msi \in {Concat(ps) : ps \in SeqsUpTo(ScanPieces, MaxPieces)}
    /\ scan_pc = "ready"
    /\ scan_names = <<>>
    /\ TmplIdle
    /\ MainIdle

\* list(get_msi_cabs(scan_msi))
Scan ==
    /\ scan_pc = "ready"
    /\ LET r == get_msi_cabs(scan_msi)
       IN  /\ scan_names' = r.names
           /\ scan_pc' = IF r.raised THEN "raised" ELSE "returned"
    /\ UNCHANGED <<scan_msi, tmpl_vars, main_vars>>

SpecScan == ScanInit /\ [][Scan]_vars

\* the number of offsets at which the marker occurs in a buffer
Occurrences(buf) == Cardinality({i \in 0..Len(buf) : MatchAt(buf, CabMarker, i)})

\* C2: on a buffer with k occurrences of the marker b".cab" (k = 0 included),
\* wherever they start, get_msi_cabs yields exactly k names.
C2_ExactlyKNames ==
    scan_pc = "returned" => Len(scan_names) = Occurrences(scan_msi)

\* ------------------------------------------- copy_and_rename, on its own
TmplSource == "activate_msvc.bat"

TmplTarget == "vs2022_buildtools-msvc.bat"

\* the lines templates are built from
TmplLines == {<<"s","e","t"," ","V","=","@","M","S","V","C","_","V","E","R","S","I","O","N","\n">>, <<"@","U","N","K","N","O","W","N","_","T","O","K","E","N","\n">>, <<"e","c","h","o"," ","@","@","o","f","f","\n">>,
              <<"c","d"," ","@","{","R","O","O","T","_","P","R","E","F","I","X","}","x","\n">>, <<"a","@"," ","b","\n">>}

\* msvc_substitutes, for one installation
TmplSubstitutes ==
    (<<"R","O","O","T","_","P","R","E","F","I","X">> :> <<"o","p","t">>) @@ (<<"M","S","V","C","_","V","E","R","S","I","O","N">> :> <<"1","4",".","3","8",".","3","3","1","3","0">>)
    @@ (<<"H","O","S","T","_","A","R","C","H">> :> <<"x","6","4">>) @@ (<<"T","A","R","G","E","T","_","A","R","C","H">> :> <<"x","6","4">>)

TmplInit ==
    /\ \E lines \in SeqsUpTo(TmplLines, MaxLines) :
          \/ tmpl_files = (TmplSource :> lines)
          \/ tmpl_files = (TmplSource :> lines) @@ (TmplTarget :> <<<<"o","l","d","\n">>>>)
    /\ tmpl_pc = "ready"
    /\ tmpl_error = None
    /\ ScanIdle
    /\ MainIdle

\* copy_and_rename(TmplSource, TmplTarget, msvc_substitutes)
CopyAndRename ==
    /\ tmpl_pc = "ready"
    /\ LET r == copy_and_rename(tmpl_files, TmplSource, TmplTarget, TmplSubstitutes)
       IN  /\ tmpl_files' = r.files
           /\ tmpl_error' = r.error
           /\ tmpl_pc' = IF r.error = None THEN "returned" ELSE "raised"
    /\ UNCHANGED <<scan_vars, main_vars>>

SpecTemplate == TmplInit /\ [][CopyAndRename]_vars

\* whether some line of a template holds a token the mapping lacks
HasUndefinedToken(lines, substitutes) ==
    \E i \in 1..Len(lines) : subs(lines[i], substitutes).error = "KeyError"

\* C3: when the template holds a token absent from the substitution map,
\* copy_and_rename fails and no output file exists at the target path (a
\* file that was there before the call is not an output of it).
C3_NoOutputAfterUndefinedToken ==
    (tmpl_pc # "ready" /\ HasUndefinedToken(tmpl_files[TmplSource], TmplSubstitutes))
        => /\ tmpl_pc = "raised"
           /\ \/ TmplTarget \notin DOMAIN tmpl_files
              \/ tmpl_files[TmplTarget] = <<<<"o","l","d","\n">>>>


\* ------------------------------------------------------ claims on main
Downloads == {i \in DOMAIN trace : trace[i].op = "download_progress"}

\* the calls of download_progress that computed a digest other than the
\* declared hash, lower-cased
Mismatched == {i \in Downloads : trace[i].digest # <<>> /\ Lower(trace[i].check) # trace[i].digest}

\* C1: a payload whose SHA-256 digest differs from its declared hash
\* (lower-cased) ends the run with a non-zero status; nothing of it is under
\* the install prefix, no call follows it (msiexec never gets it), and the
\* temporary directory it was written to is gone.
C1_MismatchEndsRun ==
    \A i \in Mismatched :
        /\ pc = "exit"
        /\ exit_status > 0
        /\ i = Len(trace)
        /\ \A p \in DOMAIN fs : fs[p] # i
        /\ ExtractedPaths(Tampered(trace[i].url)) \cap written = {}
        /\ tmpdir = NoTmpdir

\* a mismatch in the SDK phase, after payloads of the toolchain were unpacked
C1_Witness ==
    /\ pc = "exit"
    /\ \E i \in Mismatched : trace[i].phase = "sdk"
    /\ \E j \in Downloads : trace[j].phase = "vc" /\ trace[j].outcome = "returned"

MsvcFamilyPrefix == Lower(<<"M","i","c","r","o","s","o","f","t",".","V","i","s","u","a","l","S","t","u","d","i","o",".","C","o","m","p","o","n","e","n","t",".","V","C",".">>)

MsvcFamilySuffix == Lower(<<".","x","8","6",".","x","6","4">>)

\* the keys of the package index of the MSVC family
MsvcFamily ==
    {k \in Range(packages.keys) : EndsWith(k, MsvcFamilySuffix) /\ StartsWith(k, MsvcFamilyPrefix)}

Resolved == pc \notin {"idle", "license", "components", "manifest"} /\ packages # NoPackages

\* C4: when microsoft.visualstudio.component.vc.14.38.33130.x86.x64 is the
\* only MSVC-family key of the package index, the MSVC version map is
\* {"14.38": that identifier}.
C4_VersionKeyIsMajorMinor ==
    (Resolved /\ MsvcFamily = {Lower(VcComponentId)})
        => msvc = (<<"1","4",".","3","8">> :> Lower(VcComponentId))

\* C4, amended: when microsoft.visualstudio.component.vc.14.38.33130.x86.x64
\* is the only MSVC-family key of the package index, the MSVC version map is
\* {"14.38.33130": that identifier}: the key is the three fields that follow
\* "vc".
C4_VersionKeyIsThreeFields ==
    (Resolved /\ MsvcFamily = {Lower(VcComponentId)})
        => msvc = (<<"1","4",".","3","8",".","3","3","1","3","0">> :> Lower(VcComponentId))

\* the version map built from an index with that one MSVC-family key
C4_Witness ==
    /\ Resolved
    /\ MsvcFamily = {Lower(VcComponentId)}
    /\ DOMAIN msvc # {}

\* C5: the package ids install_vc_components processes are the lists of the
\* selected components, concatenated in the order of selection on the
\* command line (msvc then crt: the two msvc ids, then the four crt ids).
C5_SelectionOrderKept ==
    vc.i > 0 =>
        vc.selected = selected_msvc_components(args.components, vc.msvc_ver, HOST, TARGET)

LicenseAccepted ==
    \E k \in DOMAIN output :
        \/ output[k].msg = "license accepted by flag"
        \/ /\ output[k].msg = "Do you accept Visual Studio license"
           /\ Len(output[k].answer) > 0
           /\ LowerChar(output[k].answer[1]) = "y"

VersionsPrinted ==
    /\ \E k \in DOMAIN output : output[k] = [msg |-> "MSVC versions:", versions |-> DOMAIN msvc]
    /\ \E k \in DOMAIN output : output[k] = [msg |-> "Windows SDK versions:", versions |-> DOMAIN sdk]

\* C6: with --show-versions (license accepted), the run prints the MSVC and
\* Windows SDK versions it discovered and exits with status 0 without any
\* download, whatever --components is: a selection of known components, or
\* not given.
C6_ShowVersionsPrints ==
    (/\ pc = "exit"
     /\ args.show_versions
     /\ LicenseAccepted
     /\ (args.components = Absent \/ Range(args.components) \subseteq available_components))
        => (exit_status = 0 /\ VersionsPrinted /\ trace = <<>> /\ written = {})

Phase(name) == {i \in DOMAIN trace : trace[i].phase = name}

\* C7: when the MSVC version asked for is not in the MSVC version map (a
\* toolchain component selected), or the SDK version asked for is not in the
\* SDK version map (sdk selected), the run has ended with a non-zero status
\* and no download of that phase was made.
C7_UnknownVersionBeforeDownload ==
    /\ ("msvc_version" \in DOMAIN args /\ args.msvc_version \notin DOMAIN msvc)
          => (pc = "exit" /\ exit_status > 0 /\ Phase("vc") = {})
    /\ ("sdk_version" \in DOMAIN args /\ args.sdk_version \notin DOMAIN sdk)
          => (pc = "exit" /\ exit_status > 0 /\ Phase("sdk") = {})

\* an unknown SDK version, after the toolchain was downloaded
C7_Witness ==
    /\ "sdk_version" \in DOMAIN args
    /\ args.sdk_version = <<"1","9","0","4","1">>
    /\ args.sdk_version \notin DOMAIN sdk
    /\ Phase("vc") # {}
    /\ pc = "exit"

\* C8: when sdk is selected, the SDK version asked for is in the SDK version
\* map, and the Windows version asserted is not a substring, letter case
\* ignored, of the identifier it maps to, the run has ended with a non-zero
\* status and a message that lists the available SDK versions, and
\* install_sdk was not called.
C8_IncompatibleSdkFails ==
    (/\ "sdk_win_version" \in DOMAIN args
     /\ args.sdk_version \in DOMAIN sdk
     /\ args.sdk_win_version # Absent
     /\ ~Contains(Lower(sdk[args.sdk_version]), Lower(args.sdk_win_version)))
        => (/\ pc = "exit"
            /\ exit_status > 0
            /\ output[Len(output)] = [msg |-> "SDK is not compatible with Windows version",
                                      version |-> args.sdk_win_version, available |-> sdk]
            /\ sd = NoSd
            /\ Phase("sdk") = {})

\* --sdk-win-version 10 against the Windows 11 SDK
C8_Witness ==
    /\ pc = "exit"
    /\ "sdk_win_version" \in DOMAIN args
    /\ args.sdk_version \in DOMAIN sdk
    /\ args.sdk_win_version = <<"1","0">>
    /\ ~Contains(Lower(sdk[args.sdk_version]), Lower(args.sdk_win_version))

\* C9: when the response carries no content length, download_progress does
\* not crash: every block reaches the sink, the hash is checked and the data
\* is returned.
C9_NoContentLengthNoCrash ==
    \A i \in Downloads :
        trace[i].length = Unset
            => (trace[i].complete /\ trace[i].digest # <<>> /\ trace[i].outcome = "returned")

\* the directories this run created under dir
Created(dir) == Glob([p \in written |-> 0], dir)

\* C10: the MSVC_VERSION and SDK_VERSION substituted into the hooks are names
\* of directories this run created under VC/Tools/MSVC and Windows
\* Kits/10/bin, whatever the install prefix held before.
C10_HooksNameCreatedDirs ==
    /\ "activate/vs2022_buildtools-msvc.bat" \in DOMAIN hooks
          => \E d \in Created(MsvcDir) :
                hooks["activate/vs2022_buildtools-msvc.bat"]
                    = WriteLines(Templates["activate_msvc.bat"], msvc_substitutes(d, HOST, TARGET)).written
    /\ "activate/vs2022_buildtools-win-sdk.bat" \in DOMAIN hooks
          => \E d \in Created(SdkBinDir) :
                hooks["activate/vs2022_buildtools-win-sdk.bat"]
                    = WriteLines(Templates["activate_sdk.bat"], sdk_substitutes(d, TARGET)).written


\* the cabinet names an installer database refers to: for every place where
\* the marker stands with a whole name field before it, that field and the
\* marker
CabinetsOf(msi) ==
    {Slice(msi, i - CabNameWidth, i + 4) :
        i \in {j \in CabNameWidth..(Len(msi) - 4) : MatchAt(msi, CabMarker, j)}}

\* the calls of download_progress of the SDK phase, made before call k, that
\* streamed the whole body of name and returned it with the digest declared
Verified(name, k) ==
    {i \in 1..(k - 1) :
        /\ trace[i].op = "download_progress"
        /\ trace[i].phase = "sdk"
        /\ trace[i].name = name
        /\ trace[i].complete
        /\ trace[i].outcome = "returned"
        /\ Lower(trace[i].check) = trace[i].digest}

\* the payload of the SDK package in use for a file of its Installers folder
PayloadOf(name) == SelectSeq(packages.recs[sd.pkg][1].payloads,
                             LAMBDA p : p.fileName = <<"I","n","s","t","a","l","l","e","r","s","\\">> \o name)

\* the listed installer databases the SDK package in use has a payload for
ListedWithPayload == {m \in Range(sdk_packages(TARGET)) : Len(PayloadOf(m)) > 0}

\* the cabinets named in the body published at each url
CabinetsAt == [u \in Urls |-> CabinetsOf(Genuine(u))]

\* the cabinets those installer databases refer to, as published
ReferencedCabinets == UNION {CabinetsAt[PayloadOf(m)[1].url] : m \in ListedWithPayload}

\* the SDK package in use lacks the payload of a listed installer database or
\* of a cabinet one of them refers to
PayloadMissing ==
    \/ ListedWithPayload # Range(sdk_packages(TARGET))
    \/ \E c \in ReferencedCabinets : Len(PayloadOf(c)) = 0

Unpacks == {k \in DOMAIN trace : trace[k].op = "msiexec"}

\* C11: in install_sdk every call of msiexec comes after a verified download
\* of every listed installer database and of every cabinet those refer to;
\* with a hash mismatch in the SDK phase, or a payload missing for an
\* installer database or a cabinet, msiexec is not called and no file of the
\* install prefix comes from the SDK phase.
C11_UnpackAfterAllVerified ==
    sd # NoSd =>
        /\ \A k \in Unpacks :
              /\ \A m \in Range(sdk_packages(TARGET)) : Verified(m, k) # {}
              /\ \A c \in ReferencedCabinets : Verified(c, k) # {}
        /\ (PayloadMissing \/ Mismatched \cap Phase("sdk") # {})
              => /\ Unpacks = {}
                 /\ \A p \in DOMAIN fs : fs[p] = 0 \/ trace[fs[p]].phase = "vc"

\* msiexec called on the last installer database, after the downloads of the
\* six installer databases and of the cabinets (one of them named twice)
C11_Witness ==
    /\ sd # NoSd
    /\ Cardinality(Unpacks) = Len(sdk_packages(TARGET))
    /\ Cardinality(ReferencedCabinets) = 2
    /\ \A k \in Unpacks : trace[k].status = 0
    /\ \E p \in DOMAIN fs : fs[p] \in Unpacks

====
